---- MODULE Spec2Model ----
(***************************************************************************)
(* GhettoNet (ghettonet.py): the merge engine (merge and its three stage   *)
(* functions, the comment reconciler) and the block/entry parser.          *)
(*                                                                         *)
(* A Python string is a sequence of one-character strings, None is the     *)
(* empty tuple, a datetime is the tuple <<year, month, day, hour, minute,  *)
(* second>>, an Entry object is a cell of the heap (its id is its index),  *)
(* so that two references to one object are two uses of one id.            *)
(***************************************************************************)
EXTENDS Integers, Sequences, FiniteSets, TLC

VARIABLES
    \* merge, or one of its stage functions called on its own
    quiet,      \* f(entries, quiet): TRUE = strict, conflicts raise
    heap,       \* the Entry objects: heap[id] = [ipv4, names, date, date_extra, comments]
    entries,    \* the argument: a sequence of ids
    input0,     \* the argument's Entry values when the function was called
    by_name,    \* merge's dict by_name: name -> list of ids
    order,      \* the iteration order of by_name.keys()
    idx,        \* how many keys the reduction loop has processed
    result,     \* the list returned (ids)
    err,        \* the exception raised, or NoError
    pc,         \* where merge is: "idle", "split", "reduce", "done", "failed";
                \* "stage" before the call of a stage function, its name after
    pass,       \* 1: the first call; 2: the call on the first result, or on the
                \* first input reordered; 3: that call, after a first call that raised
    result1,    \* the Entry values of the first result
    \* combine_comments
    cc_merged,  \* the list given as merged, which the call extends in place
    cc_merged0, \* its value when the call was made
    cc_other,   \* the list given as other
    cc_return,  \* the list returned
    cc_pc,      \* "idle", "call", "returned"
    \* Entry.from_lines, str(entry) and Entry.from_lines again
    rt_lines,   \* the line group
    rt_first,   \* from_lines(rt_lines): the entry or the exception
    rt_text,    \* the lines of str(entry)
    rt_second,  \* from_lines(rt_text)
    rt_pc,      \* "idle", "parse", "render", "reparse", "done"
    \* parse
    fragile,    \* parse(contents, fragile=...): TRUE = strict
    contents,   \* the input lines parse has read so far
    in_text,    \* parse's in_text: TRUE outside a block
    lines,      \* parse's lines: the buffer
    units,      \* the pairs parse has yielded
    perr,       \* the exception parse raised, or NoError
    ppc,        \* "idle", "reading", "end", "raised"
    \* the command-line driver, run with -w
    remove,     \* options.remove: the addresses given with -r
    hosts,      \* the hosts file: "original"; "renamed" to the backup; "open" for
                \* writing, the lines kept already written; "written" and closed
    written,    \* the entries written to it (ids)
    derr,       \* the exception that ended the run, or NoError
    dpc         \* "idle", "merge", "update", "open", "write", "done", "failed"

mergeVars == <<quiet, heap, entries, input0, by_name, order, idx, result, err, pc,
               pass, result1>>
ccVars == <<cc_merged, cc_merged0, cc_other, cc_return, cc_pc>>
rtVars == <<rt_lines, rt_first, rt_text, rt_second, rt_pc>>
parseVars == <<fragile, contents, in_text, lines, units, perr, ppc>>

driverVars == <<remove, hosts, written, derr, dpc>>
vars == <<mergeVars, ccVars, rtVars, parseVars, driverVars>>

None == <<>>

(***************************************************************************)
(* Strings                                                                 *)
(***************************************************************************)

\* the characters the model uses, in ASCII order
Alphabet ==
    <<" ", "#", "-", ".", "0", "1", "2", "3", "4", "5", "6", "7", "8", "9",
      ":", "<", ">", "A", "B", "C", "D", "E", "F", "G", "H", "I", "L", "N",
      "O", "T", "X", "a", "b", "c", "d", "e", "g", "h", "i", "l", "n", "o",
      "p", "s", "t", "v", "x", "y">>

Ord(c) == CHOOSE i \in 1..Len(Alphabet) : Alphabet[i] = c

\* a < b on Python 2 str: bytewise lexicographic
RECURSIVE StrLess(_, _)
StrLess(a, b) ==
    IF b = <<>> THEN FALSE
    ELSE IF a = <<>> THEN TRUE
    ELSE IF a[1] = b[1] THEN StrLess(Tail(a), Tail(b))
    ELSE Ord(a[1]) < Ord(b[1])

\* a.startswith(p)
StartsWith(a, p) == Len(a) >= Len(p) /\ SubSeq(a, 1, Len(p)) = p

\* p in a
Contains(a, p) ==
    \E i \in 1..(Len(a) - Len(p) + 1) : SubSeq(a, i, i + Len(p) - 1) = p

RECURSIVE LStrip(_)
LStrip(s) == IF s # <<>> /\ s[1] = " " THEN LStrip(Tail(s)) ELSE s

RECURSIVE RStrip(_)
RStrip(s) ==
    IF s # <<>> /\ s[Len(s)] = " " THEN RStrip(SubSeq(s, 1, Len(s) - 1)) ELSE s

\* s.strip()
Strip(s) == LStrip(RStrip(s))

RECURSIVE Concat(_)
Concat(ss) == IF ss = <<>> THEN <<>> ELSE Head(ss) \o Concat(Tail(ss))

Range(s) == {s[i] : i \in 1..Len(s)}

Perms(S) ==
    {p \in [1..Cardinality(S) -> S] : \A i, j \in 1..Cardinality(S) : p[i] = p[j] => i = j}

(***************************************************************************)
(* The regular expressions, as matchers on strings                         *)
(***************************************************************************)

IsDigit(c) == c \in {"0", "1", "2", "3", "4", "5", "6", "7", "8", "9"}

Upper == <<"A", "B", "C", "D", "E", "G", "H", "I", "L", "N", "O", "T", "X">>
LowerOf == <<"a", "b", "c", "d", "e", "g", "h", "i", "l", "n", "o", "t", "x">>

\* c.lower()
LowerChar(c) ==
    IF \E i \in 1..Len(Upper) : Upper[i] = c
    THEN LowerOf[CHOOSE i \in 1..Len(Upper) : Upper[i] = c]
    ELSE c

\* s.lower()
Lower(s) == [i \in 1..Len(s) |-> LowerChar(s[i])]

\* the letters follow the other characters in Alphabet
IsLetter(c) == Ord(c) >= Ord("A")

\* [\w\-]: a letter, a digit or a hyphen (the model has no underscore)
IsNameChar(c) == IsLetter(c) \/ IsDigit(c) \/ c = "-"

\* the first position from i on that holds no blank (Len(s) + 1 when there is none)
RECURSIVE SkipWs(_, _)
SkipWs(s, i) == IF i <= Len(s) /\ s[i] = " " THEN SkipWs(s, i + 1) ELSE i

\* how many characters from position i on are digits: the reach of \d*
RECURSIVE Digits(_, _)
Digits(s, i) == IF i <= Len(s) /\ IsDigit(s[i]) THEN 1 + Digits(s, i + 1) ELSE 0

\* the reach of #* from position i
RECURSIVE Hashes(_, _)
Hashes(s, i) == IF i <= Len(s) /\ s[i] = "#" THEN 1 + Hashes(s, i + 1) ELSE 0

\* the reach of [\w\-]* from position i
RECURSIVE NameChars(_, _)
NameChars(s, i) == IF i <= Len(s) /\ IsNameChar(s[i]) THEN 1 + NameChars(s, i + 1) ELSE 0

\* the reach of [^<>]* from position i
RECURSIVE NotAngles(_, _)
NotAngles(s, i) ==
    IF i <= Len(s) /\ s[i] \notin {"<", ">"} THEN 1 + NotAngles(s, i + 1) ELSE 0

\* the text from position i on
From(s, i) == SubSeq(s, i, Len(s))

\* literal lit (lower case) at position i, ignoring case
MatchAt(s, i, lit) ==
    i + Len(lit) - 1 <= Len(s) /\ Lower(SubSeq(s, i, i + Len(lit) - 1)) = lit

\* ^\s*#{2,}\s*<word>\s* : the position after it, or 0 when there is no match
MarkerPrefix(s, word) ==
    LET i == SkipWs(s, 1)
        n == Hashes(s, i)
        j == SkipWs(s, i + n)
    IN  IF n >= 2 /\ MatchAt(s, j, word) THEN SkipWs(s, j + Len(word)) ELSE 0

Ghettonet == <<"g", "h", "e", "t", "t", "o", "n", "e", "t">>

\* a BEGIN that takes an end marker for a begin marker too
BEGIN_or_END(line) ==
    LET i == MarkerPrefix(line, <<"b", "e", "g", "i", "n">>)
        j == MarkerPrefix(line, <<"e", "n", "d">>)
    IN  (i > 0 /\ MatchAt(line, i, Ghettonet)) \/ (j > 0 /\ MatchAt(line, j, Ghettonet))

\* BEGIN.match(line)
BEGIN(line) ==
    LET i == MarkerPrefix(line, <<"b", "e", "g", "i", "n">>)
    IN  i > 0 /\ MatchAt(line, i, Ghettonet)

\* END.match(line)
END(line) ==
    LET i == MarkerPrefix(line, <<"e", "n", "d">>)
    IN  i > 0 /\ MatchAt(line, i, Ghettonet)

\* POSSIBLE_DATE.match(line)
POSSIBLE_DATE(line) == MarkerPrefix(line, <<"d", "a", "t", "e">>) > 0

\* COMMENT_OR_BLANK.match(line)
COMMENT_OR_BLANK(line) ==
    LET i == SkipWs(line, 1) IN i > Len(line) \/ line[i] = "#"

\* int(s) for a string of digits
RECURSIVE ToInt(_)
ToInt(s) ==
    IF s = <<>> THEN 0
    ELSE 10 * ToInt(SubSeq(s, 1, Len(s) - 1)) + (Ord(s[Len(s)]) - Ord("0"))

\* the groups of a match of DATE, None for a group that took no part
DateMatch(year, month, day, hour, min, sec, extra) ==
    [ok |-> TRUE, year |-> year, month |-> month, day |-> day, hour |-> hour,
     min |-> min, sec |-> sec, extra |-> extra]

NoMatch ==
    [ok |-> FALSE, year |-> None, month |-> None, day |-> None, hour |-> None,
     min |-> None, sec |-> None, extra |-> None]

\* (\s+(?P<hour>\d\d?):(?P<min>\d\d?)(:(?P<sec>\d\d?))?)?(\s+(?P<extra>.*))?$ on the
\* text from position i on, which is empty or starts with a blank: the time is
\* taken when the text after it is empty or blank-separated, and otherwise the
\* whole text is the extra
DateTail(s, year, month, day, i) ==
    IF i > Len(s) THEN DateMatch(year, month, day, None, None, None, None)
    ELSE LET h == SkipWs(s, i)
             nh == Digits(s, h)
             m == h + nh + 1
             nm == Digits(s, m)
             afterMin == m + nm
             q == afterMin + 1
             nq == Digits(s, q)
             afterSec == q + nq
             \* the end of the line, or blanks: where \s+(?P<extra>.*) may start
             Ends(k) == k > Len(s) \/ s[k] = " "
             Extra(k) == IF k > Len(s) THEN None ELSE From(s, SkipWs(s, k))
             hourMin == /\ nh \in 1..2
                        /\ h + nh <= Len(s) /\ s[h + nh] = ":"
                        /\ nm \in 1..2
             withSec == /\ hourMin
                        /\ afterMin <= Len(s) /\ s[afterMin] = ":"
                        /\ nq \in 1..2
                        /\ Ends(afterSec)
         IN  IF withSec
             THEN DateMatch(year, month, day, SubSeq(s, h, h + nh - 1),
                            SubSeq(s, m, m + nm - 1), SubSeq(s, q, q + nq - 1),
                            Extra(afterSec))
             ELSE IF hourMin /\ Ends(afterMin)
             THEN DateMatch(year, month, day, SubSeq(s, h, h + nh - 1),
                            SubSeq(s, m, m + nm - 1), None, Extra(afterMin))
             ELSE DateMatch(year, month, day, None, None, None, Extra(i))

\* DATE.match(line)
DATE(line) ==
    LET y == MarkerPrefix(line, <<"d", "a", "t", "e">>)
        ny == Digits(line, y)
        m == y + 5
        nm == Digits(line, m)
        d == m + nm + 1
        nd == Digits(line, d)
        rest == d + nd
    IN  IF /\ y > 0
           /\ ny = 4
           /\ y + 4 <= Len(line) /\ line[y + 4] = "-"
           /\ nm \in 1..2
           /\ m + nm <= Len(line) /\ line[m + nm] = "-"
           /\ nd \in 1..2
           /\ (rest > Len(line) \/ line[rest] = " ")
        THEN DateTail(line, SubSeq(line, y, y + 3), SubSeq(line, m, m + nm - 1),
                      SubSeq(line, d, d + nd - 1), rest)
        ELSE NoMatch

\* IPV4.match(line): ^\s*(\d{1,3}.\d{1,3}.\d{1,3}.\d{1,3})(.*), where the dot is
\* any character; the groups, from the first way of matching the engine finds:
\* each digit run as long as the rest of the pattern allows
IPV4(line) ==
    LET i == SkipWs(line, 1)
        AllDigits(k, n) == k + n - 1 <= Len(line) /\ \A x \in k..(k + n - 1) : IsDigit(line[x])
        Fits(a, b, c, d) ==
            /\ AllDigits(i, a)
            /\ i + a <= Len(line)
            /\ AllDigits(i + a + 1, b)
            /\ i + a + 1 + b <= Len(line)
            /\ AllDigits(i + a + b + 2, c)
            /\ i + a + b + 2 + c <= Len(line)
            /\ AllDigits(i + a + b + c + 3, d)
        ways == {w \in (1..3) \X (1..3) \X (1..3) \X (1..3) : Fits(w[1], w[2], w[3], w[4])}
        Before(v, w) ==
            \/ v[1] > w[1]
            \/ v[1] = w[1] /\ v[2] > w[2]
            \/ v[1] = w[1] /\ v[2] = w[2] /\ v[3] > w[3]
            \/ v[1] = w[1] /\ v[2] = w[2] /\ v[3] = w[3] /\ v[4] > w[4]
    IN  IF ways = {} THEN [ok |-> FALSE, ipv4 |-> None, rest |-> <<>>]
        ELSE LET w == CHOOSE v \in ways : \A u \in ways \ {v} : Before(v, u)
                 n == w[1] + w[2] + w[3] + w[4] + 3
             IN  [ok |-> TRUE, ipv4 |-> SubSeq(line, i, i + n - 1), rest |-> From(line, i + n)]

\* the end of (?:\.[\w\-]+)* started at position i
RECURSIVE NameParts(_, _)
NameParts(s, i) ==
    IF i <= Len(s) /\ s[i] = "." /\ NameChars(s, i + 1) > 0
    THEN NameParts(s, i + 1 + NameChars(s, i + 1))
    ELSE i

\* NAME.match(rest): ^\s*([\w\-]+(?:\.[\w\-]+)*)(.*)
NAME(rest) ==
    LET i == SkipWs(rest, 1)
        n == NameChars(rest, i)
        j == NameParts(rest, i + n)
    IN  IF n = 0 THEN [ok |-> FALSE, name |-> <<>>, rest |-> <<>>]
        ELSE [ok |-> TRUE, name |-> SubSeq(rest, i, j - 1), rest |-> From(rest, j)]

\* remove_html(line): the line without its matches of <[^<>]+>
RECURSIVE remove_html(_)
remove_html(line) ==
    IF line = <<>> THEN <<>>
    ELSE LET n == NotAngles(line, 2)
         IN  IF line[1] = "<" /\ n >= 1 /\ n + 2 <= Len(line) /\ line[n + 2] = ">"
             THEN remove_html(From(line, n + 3))
             ELSE <<line[1]>> \o remove_html(Tail(line))

(***************************************************************************)
(* Dates                                                                   *)
(***************************************************************************)

\* d1 < d2 on datetime values
RECURSIVE DateLess(_, _)
DateLess(d1, d2) ==
    IF d1 = <<>> \/ d2 = <<>> THEN FALSE
    ELSE IF d1[1] = d2[1] THEN DateLess(Tail(d1), Tail(d2))
    ELSE d1[1] < d2[1]

(***************************************************************************)
(* Entry                                                                   *)
(***************************************************************************)

Entry(ipv4, names, date, date_extra, comments) ==
    [ipv4 |-> ipv4, names |-> names, date |-> date, date_extra |-> date_extra,
     comments |-> comments]

\* Entry.clone followed by clone.names = [name], as single_name does
CloneSingle(e, name) == [e EXCEPT !.names = <<name>>]

NoError == [type |-> "none", what |-> "", name |-> <<>>, addrs |-> <<>>]
AssertionError(what) == [type |-> "AssertionError", what |-> what, name |-> <<>>, addrs |-> <<>>]
MergeException(what, name, addrs) == [type |-> "Exception", what |-> what, name |-> name, addrs |-> addrs]

(***************************************************************************)
(* Entry: parsing and formatting                                           *)
(***************************************************************************)

ParseException(what) == [type |-> "ParseException", what |-> what, name |-> <<>>, addrs |-> <<>>]

\* what a method gives: the entry after the call, and the exception if it raised
Gives(e, x) == [entry |-> e, err |-> x]

\* Entry()
NewEntry == Entry(None, <<>>, None, None, <<>>)

IsLeap(y) == (y % 4 = 0 /\ y % 100 # 0) \/ y % 400 = 0

DaysIn(y, m) ==
    IF m = 2 THEN (IF IsLeap(y) THEN 29 ELSE 28)
    ELSE IF m \in {4, 6, 9, 11} THEN 30 ELSE 31

\* whether datetime(y, m, d, h, mi, sec) is a date, not a ValueError
IsDatetime(d) ==
    /\ d[1] \in 1..9999
    /\ d[2] \in 1..12
    /\ d[3] \in 1..DaysIn(d[1], d[2])
    /\ d[4] \in 0..23
    /\ d[5] \in 0..59
    /\ d[6] \in 0..59

\* Entry.set_date
set_date(e, line) ==
    IF e.date # None THEN Gives(e, ParseException("Duplicate date"))
    ELSE LET match == DATE(line)
             \* a group that took no part counts as '0'
             AsInt(group) == IF group = None THEN 0 ELSE ToInt(group)
             date == <<AsInt(match.year), AsInt(match.month), AsInt(match.day),
                       AsInt(match.hour), AsInt(match.min), AsInt(match.sec)>>
         IN  IF ~match.ok THEN Gives(e, ParseException("Bad date"))
             ELSE IF ~IsDatetime(date) THEN Gives(e, ParseException("Could not parse date"))
             ELSE Gives([e EXCEPT !.date = date, !.date_extra = match.extra], NoError)

\* while rest: the names of an address line, lower-cased; ok is FALSE when
\* NAME does not match what is left
RECURSIVE ReadNames(_, _)
ReadNames(names, rest) ==
    IF rest = <<>> THEN [ok |-> TRUE, names |-> names]
    ELSE LET match == NAME(rest)
         IN  IF ~match.ok THEN [ok |-> FALSE, names |-> names]
             ELSE ReadNames(Append(names, Lower(match.name)), match.rest)

\* Entry.set_address
set_address(e, line) ==
    LET match == IPV4(line)
        r == ReadNames(e.names, match.rest)
    IN  IF ~match.ok \/ ~r.ok THEN Gives(e, ParseException("Could not parse addresses"))
        ELSE Gives([e EXCEPT !.ipv4 = match.ipv4, !.names = r.names], NoError)

\* what the loop of from_lines does with one line
ReadLine(e, line) ==
    IF POSSIBLE_DATE(line) /\ e.date = None THEN set_date(e, line)
    ELSE IF COMMENT_OR_BLANK(line)
    THEN Gives([e EXCEPT !.comments = Append(@, line)], NoError)
    ELSE set_address(e, line)

\* for line in lines: the loop of from_lines, which an exception leaves
RECURSIVE ReadLines(_, _)
ReadLines(e, ls) ==
    IF ls = <<>> THEN Gives(e, NoError)
    ELSE CHOOSE out \in {IF r.err # NoError THEN r ELSE ReadLines(r.entry, Tail(ls)) :
                         r \in {ReadLine(e, Head(ls))}} : TRUE

\* from_lines without its checks after the loop
Checked_unchecked(r) == IF r.err # NoError THEN Gives(NewEntry, r.err) ELSE r

\* the checks of from_lines after its loop
Checked(r) ==
    IF r.err # NoError THEN Gives(NewEntry, r.err)
    ELSE IF r.entry.ipv4 = None THEN Gives(NewEntry, ParseException("No IPv4 address"))
    ELSE IF r.entry.names = <<>> THEN Gives(NewEntry, ParseException("No names"))
    ELSE r

\* Entry.from_lines
from_lines(ls) == CHOOSE out \in {Checked(r) : r \in {ReadLines(NewEntry, ls)}} : TRUE

DigitChar(k) == Alphabet[Ord("0") + k]

\* '%0<w>d' % n
RECURSIVE Pad(_, _)
Pad(n, w) == IF w = 0 THEN <<>> ELSE Pad(n \div 10, w - 1) \o <<DigitChar(n % 10)>>

\* date.isoformat(' ')
isoformat(d) ==
    Pad(d[1], 4) \o <<"-">> \o Pad(d[2], 2) \o <<"-">> \o Pad(d[3], 2) \o <<" ">>
    \o Pad(d[4], 2) \o <<":">> \o Pad(d[5], 2) \o <<":">> \o Pad(d[6], 2)

\* Entry.format_date
format_date(e) ==
    IF e.date = None THEN <<>>
    ELSE LET line == <<"#", "#", " ", "D", "A", "T", "E", " ">> \o isoformat(e.date)
         IN  IF e.date_extra # <<>> THEN <<line \o <<" ">> \o e.date_extra>> ELSE <<line>>

\* names.sort(key=lambda n: len(n), reverse=True): stable, longest first
RECURSIVE InsertByLenDesc(_, _)
InsertByLenDesc(name, sorted) ==
    IF sorted = <<>> THEN <<name>>
    ELSE IF Len(Head(sorted)) < Len(name) THEN <<name>> \o sorted
    ELSE <<Head(sorted)>> \o InsertByLenDesc(name, Tail(sorted))

RECURSIVE SortByLenDesc(_)
SortByLenDesc(names) ==
    IF names = <<>> THEN <<>>
    ELSE InsertByLenDesc(names[Len(names)], SortByLenDesc(SubSeq(names, 1, Len(names) - 1)))

\* ' '.join(names)
RECURSIVE JoinNames(_)
JoinNames(names) ==
    IF names = <<>> THEN <<>>
    ELSE IF Len(names) = 1 THEN names[1]
    ELSE names[1] \o <<" ">> \o JoinNames(Tail(names))

\* Entry.format_address
format_address(e) ==
    <<e.ipv4 \o <<" ", " ", " ", " ">> \o JoinNames(SortByLenDesc(e.names))>>

\* Entry.format_comments
RECURSIVE DropLeadingBlanks(_)
DropLeadingBlanks(comments) ==
    IF comments # <<>> /\ Strip(comments[1]) = <<>> THEN DropLeadingBlanks(Tail(comments))
    ELSE comments

format_comments(e) == DropLeadingBlanks(e.comments)

\* the lines of str(entry)
EntryLines(e) == format_comments(e) \o format_date(e) \o format_address(e)

(***************************************************************************)
(* Comment reconciler                                                      *)
(***************************************************************************)

RECURSIVE DropPrefixes(_)
DropPrefixes(c) ==
    IF c # <<>> /\ (c[1] = "#" \/ c[1] = " ") THEN DropPrefixes(Tail(c)) ELSE c

strip_comment(comment) == DropPrefixes(Strip(comment))

\* set(map(strip_comment, comments))
Known(comments) == {strip_comment(c) : c \in Range(comments)}

\* combine_known that never adds to known
RECURSIVE combine_known_forgetful(_, _, _)
combine_known_forgetful(merged, other, known) ==
    IF other = <<>> THEN [merged |-> merged, known |-> known]
    ELSE IF strip_comment(Head(other)) \notin known
    THEN combine_known_forgetful(Append(merged, Head(other)), Tail(other), known)
    ELSE combine_known_forgetful(merged, Tail(other), known)

\* combine_comments with an explicit known set: the extended list and the set
RECURSIVE combine_known(_, _, _)
combine_known(merged, other, known) ==
    IF other = <<>> THEN [merged |-> merged, known |-> known]
    ELSE LET comment == Head(other)
             stripped == strip_comment(comment)
         IN  IF stripped \notin known
             THEN combine_known(Append(merged, comment), Tail(other), known \cup {stripped})
             ELSE combine_known(merged, Tail(other), known)

\* combine_comments without the test on known
combine_comments_all(merged, other) == merged \o other

\* combine_comments(merged, other) with known=None
combine_comments(merged, other) == combine_known(merged, other, Known(merged)).merged

(***************************************************************************)
(* The merge stages.  Each takes the heap, a bucket (a list of ids) and    *)
(* quiet, and gives the heap after its mutations, the list it returns and  *)
(* the exception it raises, if any.                                        *)
(***************************************************************************)

Stage(h, out, e) == [h |-> h, out |-> out, err |-> e]

\* reduce(lambda same, e: same and len(e.names) == 1, entries, True)
SingleNames(h, es) == \A i \in 1..Len(es) : Len(h[es[i]].names) = 1

\* reduce(lambda same, e: same and e.date == entries[0].date, entries, True)
SameDates(h, es) == \A i \in 1..Len(es) : h[es[i]].date = h[es[1]].date

\* len(set(map(lambda e: e.ipv4, entries))) == len(entries)
DistinctIpv4(h, es) == Cardinality({h[es[i]].ipv4 : i \in 1..Len(es)}) = Len(es)

\* list.sort(key=lambda e: e.date, reverse=True): stable, newest first
RECURSIVE InsertByDateDesc(_, _, _)
InsertByDateDesc(h, id, sorted) ==
    IF sorted = <<>> THEN <<id>>
    ELSE IF DateLess(h[Head(sorted)].date, h[id].date) THEN <<id>> \o sorted
    ELSE <<Head(sorted)>> \o InsertByDateDesc(h, id, Tail(sorted))

RECURSIVE SortByDateDesc(_, _)
SortByDateDesc(h, es) ==
    IF es = <<>> THEN <<>>
    ELSE InsertByDateDesc(h, es[Len(es)], SortByDateDesc(h, SubSeq(es, 1, Len(es) - 1)))

\* merge_by_date that sorts without reverse=True: the oldest date wins
merge_by_date_oldest(h, es, q) ==
    IF es = <<>> THEN Stage(h, es, NoError)
    ELSE IF ~SingleNames(h, es) THEN Stage(h, es, AssertionError("Multiple names"))
    ELSE LET HasDate(id) == h[id].date # None
             with_dates == SelectSeq(es, HasDate)
         IN  IF with_dates = <<>> THEN Stage(h, es, NoError)
             ELSE LET sorted == SortByDateDesc(h, with_dates)
                      IsOldest(id) == h[id].date = h[sorted[Len(sorted)]].date
                  IN  Stage(h, SelectSeq(sorted, IsOldest), NoError)

\* merge_by_date that keeps the first of the newest entries only
merge_by_date_one(h, es, q) ==
    IF es = <<>> THEN Stage(h, es, NoError)
    ELSE IF ~SingleNames(h, es) THEN Stage(h, es, AssertionError("Multiple names"))
    ELSE LET HasDate(id) == h[id].date # None
             with_dates == SelectSeq(es, HasDate)
         IN  IF with_dates = <<>> THEN Stage(h, es, NoError)
             ELSE Stage(h, <<SortByDateDesc(h, with_dates)[1]>>, NoError)

merge_by_date(h, es, q) ==
    IF es = <<>> THEN Stage(h, es, NoError)
    ELSE IF ~SingleNames(h, es) THEN Stage(h, es, AssertionError("Multiple names"))
    ELSE LET HasDate(id) == h[id].date # None
             with_dates == SelectSeq(es, HasDate)
         IN  IF with_dates = <<>> THEN Stage(h, es, NoError)
             ELSE LET sorted == SortByDateDesc(h, with_dates)
                      IsNewest(id) == h[id].date = h[sorted[1]].date
                  IN  Stage(h, SelectSeq(sorted, IsNewest), NoError)

\* list.sort(key=lambda e: e.ipv4): stable, smallest string first
RECURSIVE InsertByIpv4(_, _, _)
InsertByIpv4(h, id, sorted) ==
    IF sorted = <<>> THEN <<id>>
    ELSE IF StrLess(h[id].ipv4, h[Head(sorted)].ipv4) THEN <<id>> \o sorted
    ELSE <<Head(sorted)>> \o InsertByIpv4(h, id, Tail(sorted))

\* no sort: the bucket keeps its order
SortByIpv4_unsorted(h, es) == es

RECURSIVE SortByIpv4(_, _)
SortByIpv4(h, es) ==
    IF es = <<>> THEN <<>>
    ELSE InsertByIpv4(h, es[Len(es)], SortByIpv4(h, SubSeq(es, 1, Len(es) - 1)))

\* groups() of merge_same_ipv4: the runs of equal ipv4 in the sorted list
RECURSIVE groups(_, _)
groups(h, sorted) ==
    IF sorted = <<>> THEN <<>>
    ELSE LET Same(id) == h[id].ipv4 = h[sorted[1]].ipv4
             n == CHOOSE k \in 1..Len(sorted) :
                      /\ \A i \in 1..k : Same(sorted[i])
                      /\ k < Len(sorted) => ~Same(sorted[k + 1])
         IN  <<SubSeq(sorted, 1, n)>> \o groups(h, SubSeq(sorted, n + 1, Len(sorted)))

\* for other in others: combine_comments(merged.comments, extra(other), known=known)
\* where merged.comments is mutated in place; mark is TRUE in merge_force, which
\* appends the conflict marker to a copy of other's comments first
ConflictMarker(ipv4) == <<"#", "#", " ", "C", "O", "N", "F", "L", "I", "C", "T", ":", " ">> \o ipv4

\* CombineInto that appends the conflict marker whatever known holds
RECURSIVE CombineInto_marking(_, _, _, _, _)
CombineInto_marking(h, merged, others, known, mark) ==
    IF others = <<>> THEN h
    ELSE LET other == h[Head(others)]
             r == combine_known(h[merged].comments, other.comments, known)
             cs == IF mark THEN Append(r.merged, ConflictMarker(other.ipv4)) ELSE r.merged
         IN  CombineInto_marking([h EXCEPT ![merged].comments = cs], merged,
                                 Tail(others), r.known, mark)

RECURSIVE CombineInto(_, _, _, _, _)
CombineInto(h, merged, others, known, mark) ==
    IF others = <<>> THEN h
    ELSE LET other == h[Head(others)]
             other_comments == IF mark THEN Append(other.comments, ConflictMarker(other.ipv4))
                               ELSE other.comments
             r == combine_known(h[merged].comments, other_comments, known)
         IN  CombineInto([h EXCEPT ![merged].comments = r.merged], merged,
                         Tail(others), r.known, mark)

\* combine() that takes the last entry of each group for merged
RECURSIVE combine_last(_, _)
combine_last(h, gs) ==
    IF gs = <<>> THEN Stage(h, <<>>, NoError)
    ELSE LET group == Head(gs)
             merged == group[Len(group)]
             known == Known(h[merged].comments)
             h1 == CombineInto(h, merged, SubSeq(group, 1, Len(group) - 1), known, FALSE)
             rest == combine_last(h1, Tail(gs))
         IN  Stage(rest.h, <<merged>> \o rest.out, NoError)

\* combine() of merge_same_ipv4: the first of each group, with the others' comments
RECURSIVE combine(_, _)
combine(h, gs) ==
    IF gs = <<>> THEN Stage(h, <<>>, NoError)
    ELSE LET group == Head(gs)
             merged == group[1]
             known == Known(h[merged].comments)
             h1 == CombineInto(h, merged, Tail(group), known, FALSE)
             rest == combine(h1, Tail(gs))
         IN  Stage(rest.h, <<merged>> \o rest.out, NoError)

\* a merge_same_ipv4 that returns its bucket as it is
merge_same_ipv4_skip(h, es, q) == Stage(h, es, NoError)

merge_same_ipv4(h, es, q) ==
    IF es = <<>> THEN Stage(h, es, NoError)
    ELSE IF ~SingleNames(h, es) THEN Stage(h, es, AssertionError("Multiple names"))
    ELSE IF ~SameDates(h, es) THEN Stage(h, es, AssertionError("Dates vary"))
    ELSE combine(h, groups(h, SortByIpv4(h, es)))

\* merge_force that never raises: quiet is ignored
merge_force_lenient(h, es, q) ==
    IF es = <<>> THEN Stage(h, es, NoError)
    ELSE Stage(CombineInto(h, es[1], Tail(es), Known(h[es[1]].comments), TRUE),
               <<es[1]>>, NoError)

merge_force(h, es, q) ==
    IF es = <<>> THEN Stage(h, es, NoError)
    ELSE IF ~SingleNames(h, es) THEN Stage(h, es, AssertionError("Multiple names"))
    ELSE IF ~SameDates(h, es) THEN Stage(h, es, AssertionError("Dates vary"))
    ELSE IF ~DistinctIpv4(h, es) THEN Stage(h, es, AssertionError("IPv4 are not all distinct"))
    ELSE LET merged == es[1]
         IN  IF q
             THEN Stage(h, es, MergeException("Conflicting IPv4 addresses",
                                              h[merged].names[1],
                                              [i \in 1..Len(es) |-> h[es[i]].ipv4]))
             ELSE Stage(CombineInto(h, merged, Tail(es), Known(h[merged].comments), TRUE),
                        <<merged>>, NoError)

(***************************************************************************)
(* merge                                                                   *)
(***************************************************************************)

Localhost == <<"l", "o", "c", "a", "l", "h", "o", "s", "t">>
Ipv6Prefix == <<"i", "p", "v", "6", "-">>

\* name == 'localhost' in place of 'localhost' in name
Excluded_exact(name) == name = Localhost \/ StartsWith(name, Ipv6Prefix)

\* 'localhost' in name or name.startswith('ipv6-')
Excluded(name) == Contains(name, Localhost) \/ StartsWith(name, Ipv6Prefix)

\* single_name without the clone: the entry itself, whatever its names
single_name_shared(h, id, name) == [h |-> h, id |-> id]

\* Entry.single_name: the entry itself when it has one name, else a new object
single_name(h, id, name) ==
    IF Len(h[id].names) = 1 THEN [h |-> h, id |-> id]
    ELSE [h |-> Append(h, CloneSingle(h[id], name)), id |-> Len(h) + 1]

\* by_name[name].append(x), creating the list when the key is new
AddToBucket(bn, name, x) ==
    IF name \in DOMAIN bn THEN [bn EXCEPT ![name] = Append(@, x)]
    ELSE [k \in DOMAIN bn \cup {name} |-> IF k = name THEN <<x>> ELSE bn[k]]

\* for name in entry.names: the inner loop of the split
RECURSIVE SplitNames(_, _, _, _)
SplitNames(h, bn, id, names) ==
    IF names = <<>> THEN [h |-> h, by_name |-> bn]
    ELSE LET name == Head(names)
         IN  IF Excluded(name) THEN SplitNames(h, bn, id, Tail(names))
             ELSE LET s == single_name(h, id, name)
                  IN  SplitNames(s.h, AddToBucket(bn, name, s.id), id, Tail(names))

\* for entry in entries: the outer loop of the split
RECURSIVE SplitEntries(_, _, _)
SplitEntries(h, bn, es) ==
    IF es = <<>> THEN [h |-> h, by_name |-> bn]
    ELSE LET r == SplitNames(h, bn, Head(es), h[Head(es)].names)
         IN  SplitEntries(r.h, r.by_name, Tail(es))

\* if len(by_name[name]) > 1: by_name[name] = merge(by_name[name], quiet),
\* for the three default strategies in turn; an exception ends the loop
ReduceBucket(h, bucket, q) ==
    LET s0 == Stage(h, bucket, NoError)
        s1 == IF Len(s0.out) > 1 THEN merge_by_date(s0.h, s0.out, q) ELSE s0
        s2 == IF s1.err = NoError /\ Len(s1.out) > 1
              THEN merge_same_ipv4(s1.h, s1.out, q) ELSE s1
        s3 == IF s2.err = NoError /\ Len(s2.out) > 1
              THEN merge_force(s2.h, s2.out, q) ELSE s2
    IN  s3

\* the last loop without the lookup in by_ipv4: every winner is returned
RECURSIVE CombineByIpv4_each(_, _, _, _)
CombineByIpv4_each(h, bn, names, by_ipv4) ==
    IF names = <<>> THEN [h |-> h, by_ipv4 |-> by_ipv4]
    ELSE CombineByIpv4_each(h, bn, Tail(names), Append(by_ipv4, bn[Head(names)][1]))

\* the last loop of merge over by_name.keys(): by_ipv4 is kept as the list of
\* the entries it holds, in insertion order
RECURSIVE CombineByIpv4(_, _, _, _)
CombineByIpv4(h, bn, names, by_ipv4) ==
    IF names = <<>> THEN [h |-> h, by_ipv4 |-> by_ipv4]
    ELSE LET name == Head(names)
             entry == bn[name][1]
             Holds(id) == h[id].ipv4 = h[entry].ipv4
             held == SelectSeq(by_ipv4, Holds)
         IN  IF held = <<>>
             THEN CombineByIpv4(h, bn, Tail(names), Append(by_ipv4, entry))
             ELSE LET target == held[1]
                      h1 == [h EXCEPT ![target].comments =
                                          combine_comments(@, h[entry].comments),
                                      ![target].names = Append(@, name)]
                  IN  CombineByIpv4(h1, bn, Tail(names), by_ipv4)

EmptyDict == [k \in {} |-> <<>>]

\* ghettonet.py 495-506: split the entries into one bucket per name
SplitByName ==
    /\ pc = "split"
    /\ LET r == SplitEntries(heap, EmptyDict, entries)
       IN  /\ heap' = r.h
           /\ by_name' = r.by_name
           /\ \E o \in Perms(DOMAIN r.by_name) : order' = o
    /\ idx' = 0
    /\ pc' = "reduce"
    /\ UNCHANGED <<quiet, entries, input0, result, err, pass, result1>>
    /\ UNCHANGED <<ccVars, rtVars, parseVars, driverVars>>

\* ghettonet.py 508-513: reduce the next bucket to a single entry
ReduceName ==
    /\ pc = "reduce"
    /\ idx < Len(order)
    /\ LET name == order[idx + 1]
           r == ReduceBucket(heap, by_name[name], quiet)
       IN  /\ heap' = r.h
           /\ IF r.err # NoError
              THEN /\ err' = r.err
                   /\ pc' = "failed"
                   /\ UNCHANGED by_name
              ELSE IF Len(r.out) > 1
              THEN /\ err' = MergeException("Multiple entries", name, <<>>)
                   /\ pc' = "failed"
                   /\ by_name' = [by_name EXCEPT ![name] = r.out]
              ELSE /\ by_name' = [by_name EXCEPT ![name] = r.out]
                   /\ UNCHANGED <<err, pc>>
    /\ idx' = idx + 1
    /\ UNCHANGED <<quiet, entries, input0, order, result, pass, result1>>
    /\ UNCHANGED <<ccVars, rtVars, parseVars, driverVars>>

\* ghettonet.py 515-523: combine the winners by address and return the values
CombineAndReturn ==
    /\ pc = "reduce"
    /\ idx = Len(order)
    /\ LET r == CombineByIpv4(heap, by_name, order, <<>>)
       IN  /\ heap' = r.h
           /\ \E v \in Perms(Range(r.by_ipv4)) : result' = v
    /\ pc' = "done"
    /\ UNCHANGED <<quiet, entries, input0, by_name, order, idx, err, pass, result1>>
    /\ UNCHANGED <<ccVars, rtVars, parseVars, driverVars>>

\* the caller merges the returned list again, with the same quiet
MergeAgain ==
    /\ pc = "done"
    /\ pass = 1
    /\ entries' = result
    /\ input0' = [i \in 1..Len(result) |-> heap[result[i]]]
    /\ result1' = [i \in 1..Len(result) |-> heap[result[i]]]
    /\ pass' = 2
    /\ pc' = "split"
    /\ by_name' = EmptyDict
    /\ order' = <<>>
    /\ idx' = 0
    /\ result' = <<>>
    /\ UNCHANGED <<quiet, heap, err>>
    /\ UNCHANGED <<ccVars, rtVars, parseVars, driverVars>>

\* the names of the entry values es, in the order merge's first loop meets them
NamesInOrder(es) == Concat([i \in 1..Len(es) |-> es[i].names])

\* ghettonet.py 499-506: the keys of by_name in the order of their insertion
RECURSIVE FirstSeen(_, _)
FirstSeen(ns, seen) ==
    IF ns = <<>> THEN seen
    ELSE IF Excluded(Head(ns)) \/ Head(ns) \in Range(seen) THEN FirstSeen(Tail(ns), seen)
    ELSE FirstSeen(Tail(ns), Append(seen, Head(ns)))

\* the caller calls merge again, with the same quiet, on new entries with the
\* values of the first input in another order; the order is one that inserts
\* the keys of by_name in another sequence (with the same sequence the dict is
\* the same and so is the order of its keys)
MergePermuted ==
    /\ pc \in {"done", "failed"}
    /\ pass = 1
    /\ \E p \in Perms(1..Len(input0)) :
          LET again == [i \in 1..Len(input0) |-> input0[p[i]]]
          IN  /\ FirstSeen(NamesInOrder(again), <<>>) # FirstSeen(NamesInOrder(input0), <<>>)
              /\ heap' = again
              /\ input0' = again
    /\ entries' = [i \in 1..Len(input0) |-> i]
    /\ result1' = [i \in 1..Len(result) |-> heap[result[i]]]
    /\ pass' = IF pc = "done" THEN 2 ELSE 3
    /\ pc' = "split"
    /\ by_name' = EmptyDict
    /\ order' = <<>>
    /\ idx' = 0
    /\ result' = <<>>
    /\ err' = NoError
    /\ UNCHANGED quiet
    /\ UNCHANGED <<ccVars, rtVars, parseVars, driverVars>>

(***************************************************************************)
(* The command-line driver, run with -w                                    *)
(***************************************************************************)

\* ghettonet.py 816-817: not match or match.group(2).strip()
BadAddress(address) ==
    LET match == IPV4(address)
    IN  ~match.ok \/ Strip(match.rest) # <<>>

\* ghettonet.py 810-823: filter_addresses(ipv4s, entries), once it is iterated
filter_addresses(h, ipv4s, es) ==
    IF \E i \in 1..Len(ipv4s) : BadAddress(ipv4s[i])
    THEN LET bad == CHOOSE i \in 1..Len(ipv4s) :
                        /\ BadAddress(ipv4s[i])
                        /\ \A j \in 1..(i - 1) : ~BadAddress(ipv4s[j])
         IN  Stage(h, <<>>, [type |-> "Exception", what |-> "Bad address to remove",
                             name |-> <<>>, addrs |-> <<ipv4s[bad]>>])
    ELSE LET to_remove == {IPV4(ipv4s[i]).ipv4 : i \in 1..Len(ipv4s)}
             Kept(id) == h[id].ipv4 \notin to_remove
         IN  Stage(h, SelectSeq(es, Kept), NoError)

\* ghettonet.py 924: merge(entries, quiet=options.quiet) raised; the run ends
MergeRaises ==
    /\ dpc = "merge"
    /\ pc = "failed"
    /\ derr' = err
    /\ dpc' = "failed"
    /\ UNCHANGED <<remove, hosts, written>>
    /\ UNCHANGED <<mergeVars, ccVars, rtVars, parseVars>>

\* ghettonet.py 925-928, 881-893: merge returned; filter_addresses(options.remove,
\* entries) makes a generator, whose body does not start; update_hosts reads
\* the lines to keep and renames the hosts file to a backup, or cannot
CallUpdateHosts ==
    /\ dpc = "merge"
    /\ pc = "done"
    /\ \/ /\ hosts' = "renamed"
          /\ dpc' = "open"
          /\ UNCHANGED derr
       \/ /\ derr' = [type |-> "Exception",
                     what |-> "The existing hosts file could not be renamed",
                     name |-> <<>>, addrs |-> <<>>]
          /\ dpc' = "failed"
          /\ UNCHANGED hosts
    /\ UNCHANGED <<remove, written>>
    /\ UNCHANGED <<mergeVars, ccVars, rtVars, parseVars>>

\* ghettonet.py 894-898: open(path, 'w') and the lines kept
OpenHosts ==
    /\ dpc = "open"
    /\ hosts' = "open"
    /\ dpc' = "write"
    /\ UNCHANGED <<remove, written, derr>>
    /\ UNCHANGED <<mergeVars, ccVars, rtVars, parseVars>>

\* ghettonet.py 899-900, 826-840: write(hosts, entries): list(entries) runs
\* filter_addresses; then the block is written and the file closed
WriteEntries ==
    /\ dpc = "write"
    /\ LET r == filter_addresses(heap, remove, result)
       IN  IF r.err # NoError
           THEN /\ derr' = r.err
                /\ dpc' = "failed"
                /\ UNCHANGED <<hosts, written>>
           ELSE /\ written' = r.out
                /\ hosts' = "written"
                /\ dpc' = "done"
                /\ UNCHANGED derr
    /\ UNCHANGED remove
    /\ UNCHANGED <<mergeVars, ccVars, rtVars, parseVars>>

(***************************************************************************)
(* The stage functions, called on their own                                *)
(***************************************************************************)

\* what a call of a stage function leaves: the objects, the list returned or
\* the exception
Called(r, name) ==
    /\ heap' = r.h
    /\ result' = IF r.err = NoError THEN r.out ELSE <<>>
    /\ err' = r.err
    /\ pc' = name

\* ghettonet.py 526-558: merge_by_date(entries, quiet)
CallMergeByDate ==
    /\ pc = "stage"
    /\ Called(merge_by_date(heap, entries, quiet), "merge_by_date")
    /\ UNCHANGED <<quiet, entries, input0, by_name, order, idx, pass, result1>>
    /\ UNCHANGED <<ccVars, rtVars, parseVars, driverVars>>

\* ghettonet.py 561-605: merge_same_ipv4(entries, quiet), which sorts the list
\* it is given in place once its assertions have passed
CallMergeSameIpv4 ==
    /\ pc = "stage"
    /\ LET r == merge_same_ipv4(heap, entries, quiet)
       IN  /\ Called(r, "merge_same_ipv4")
           /\ entries' = IF r.err = NoError THEN SortByIpv4(heap, entries) ELSE entries
    /\ UNCHANGED <<quiet, input0, by_name, order, idx, pass, result1>>
    /\ UNCHANGED <<ccVars, rtVars, parseVars, driverVars>>

\* ghettonet.py 646-686: merge_force(entries, quiet)
CallMergeForce ==
    /\ pc = "stage"
    /\ Called(merge_force(heap, entries, quiet), "merge_force")
    /\ UNCHANGED <<quiet, entries, input0, by_name, order, idx, pass, result1>>
    /\ UNCHANGED <<ccVars, rtVars, parseVars, driverVars>>

\* merge_force once more, on the winner it returned and the entries it discarded
CallMergeForceAgain ==
    /\ pc = "merge_force"
    /\ pass = 1
    /\ err = NoError
    /\ result # <<>>
    /\ Called(merge_force(heap, <<result[1]>> \o Tail(entries), quiet), "merge_force")
    /\ entries' = <<result[1]>> \o Tail(entries)
    /\ result1' = [i \in 1..Len(result) |-> heap[result[i]]]
    /\ pass' = 2
    /\ UNCHANGED <<quiet, input0, by_name, order, idx>>
    /\ UNCHANGED <<ccVars, rtVars, parseVars, driverVars>>

(***************************************************************************)
(* combine_comments, called on its own                                     *)
(***************************************************************************)

\* ghettonet.py 627-643: the call extends merged in place and returns it
CombineComments ==
    /\ cc_pc = "call"
    /\ cc_merged' = combine_comments(cc_merged, cc_other)
    /\ cc_return' = cc_merged'
    /\ cc_pc' = "returned"
    /\ UNCHANGED <<cc_merged0, cc_other>>
    /\ UNCHANGED <<mergeVars, rtVars, parseVars, driverVars>>

(***************************************************************************)
(* Parse a line group, write the entry, parse what was written              *)
(***************************************************************************)

NoEntry == Gives(NewEntry, NoError)

\* ghettonet.py 277-297: Entry.from_lines(lines)
FromLines ==
    /\ rt_pc = "parse"
    /\ rt_first' = from_lines(rt_lines)
    /\ rt_pc' = IF rt_first'.err = NoError THEN "render" ELSE "done"
    /\ UNCHANGED <<rt_lines, rt_text, rt_second>>
    /\ UNCHANGED <<mergeVars, ccVars, parseVars, driverVars>>

\* ghettonet.py 382-387: str(entry), as its lines
Render ==
    /\ rt_pc = "render"
    /\ rt_text' = EntryLines(rt_first.entry)
    /\ rt_pc' = "reparse"
    /\ UNCHANGED <<rt_lines, rt_first, rt_second>>
    /\ UNCHANGED <<mergeVars, ccVars, parseVars, driverVars>>

\* Entry.from_lines on the lines written
FromLinesAgain ==
    /\ rt_pc = "reparse"
    /\ rt_second' = from_lines(rt_text)
    /\ rt_pc' = "done"
    /\ UNCHANGED <<rt_lines, rt_first, rt_text>>
    /\ UNCHANGED <<mergeVars, ccVars, parseVars, driverVars>>

(***************************************************************************)
(* parse                                                                   *)
(***************************************************************************)

MaxLines == 4

\* a pair parse yields: (False, lines) or (True, entry)
TextUnit(ls) == [data |-> FALSE, lines |-> ls, entry |-> NewEntry]

\* a data unit whose entry has lost the comments read for it
DataUnit_uncommented(e) ==
    [data |-> TRUE, lines |-> <<>>, entry |-> [e EXCEPT !.comments = <<>>]]

DataUnit(e) == [data |-> TRUE, lines |-> <<>>, entry |-> e]

\* a discard() that tests the list, not the joined text: blank lines count
DiscardRaises_blanks(ls) == ls # <<>> /\ fragile

\* a discard() that never raises
DiscardRaises_never(ls) == FALSE

\* a discard() that raises in lenient mode too
DiscardRaises_lenient(ls) == Concat(ls) # <<>>

\* discard(): whether it raises, given the buffer
DiscardRaises(ls) == Concat(ls) # <<>> /\ fragile

\* an except clause that leaves the scanner inside the block
Caught_inside == [in_text |-> FALSE, lines |-> <<>>]

\* except ParseException, once discard() has returned: in_text = True, and
\* lines = [] after the try statement
Caught == [in_text |-> TRUE, lines |-> <<>>]

\* ghettonet.py 448-468: one turn of the loop, on the next line of the input
ParseLine(raw) ==
    /\ ppc = "reading"
    /\ Len(contents) < MaxLines
    /\ contents' = Append(contents, raw)
    /\ LET line == Strip(remove_html(raw))
           buffer == Append(lines, line)
       IN  IF in_text
           THEN IF BEGIN(line)
                THEN /\ units' = IF lines # <<>> THEN Append(units, TextUnit(lines)) ELSE units
                     /\ in_text' = FALSE
                     /\ lines' = <<>>
                     /\ UNCHANGED <<perr, ppc>>
                ELSE /\ lines' = buffer
                     /\ UNCHANGED <<in_text, units, perr, ppc>>
           ELSE IF END(line)
           THEN IF DiscardRaises(lines)
                THEN /\ perr' = ParseException("Unexpected text")
                     /\ ppc' = "raised"
                     /\ UNCHANGED <<in_text, lines, units>>
                ELSE /\ in_text' = TRUE
                     /\ lines' = <<>>
                     /\ UNCHANGED <<units, perr, ppc>>
           ELSE IF ~COMMENT_OR_BLANK(line)
           THEN LET r == from_lines(buffer)
                IN  IF r.err = NoError
                    THEN /\ units' = Append(units, DataUnit(r.entry))
                         /\ lines' = <<>>
                         /\ UNCHANGED <<in_text, perr, ppc>>
                    ELSE IF DiscardRaises(buffer)
                    THEN /\ perr' = ParseException("Unexpected text")
                         /\ ppc' = "raised"
                         /\ lines' = buffer
                         /\ UNCHANGED <<in_text, units>>
                    ELSE /\ in_text' = Caught.in_text
                         /\ lines' = Caught.lines
                         /\ UNCHANGED <<units, perr, ppc>>
           ELSE /\ lines' = buffer
                /\ UNCHANGED <<in_text, units, perr, ppc>>
    /\ UNCHANGED fragile
    /\ UNCHANGED <<mergeVars, ccVars, rtVars, driverVars>>

\* the end of the input without the two raises of strict mode
ParseEnd_silent ==
    /\ ppc = "reading"
    /\ units' = IF in_text /\ lines # <<>> THEN Append(units, TextUnit(lines)) ELSE units
    /\ ppc' = "end"
    /\ UNCHANGED <<fragile, contents, in_text, lines, perr>>
    /\ UNCHANGED <<mergeVars, ccVars, rtVars, driverVars>>

\* ghettonet.py 469-477: the input is exhausted
ParseEnd ==
    /\ ppc = "reading"
    /\ IF in_text
       THEN /\ units' = IF lines # <<>> THEN Append(units, TextUnit(lines)) ELSE units
            /\ ppc' = "end"
            /\ UNCHANGED perr
       ELSE IF DiscardRaises(lines)
       THEN /\ perr' = ParseException("Unexpected text")
            /\ ppc' = "raised"
            /\ UNCHANGED units
       ELSE IF fragile
       THEN /\ perr' = ParseException("Missing END GHETTONET")
            /\ ppc' = "raised"
            /\ UNCHANGED units
       ELSE /\ ppc' = "end"
            /\ UNCHANGED <<units, perr>>
    /\ UNCHANGED <<fragile, contents, in_text, lines>>
    /\ UNCHANGED <<mergeVars, ccVars, rtVars, driverVars>>

(***************************************************************************)
(* The inputs of merge                                                     *)
(***************************************************************************)

MaxEntries == 3

Addr12 == <<"1", ".", "2">>
Addr13 == <<"1", ".", "3">>
Addr110 == <<"1", ".", "1", "0">>
NameX == <<"x">>
NameY == <<"y">>
NameIpv6 == <<"i", "p", "v", "6", "-", "x">>
NameNotIpv6 == <<"x", "i", "p", "v", "6", "-">>
NameMyLocalhost == <<"x", "."  >> \o Localhost
Date2009 == <<2009, 1, 1, 0, 0, 0>>
Date2010 == <<2010, 1, 1, 0, 0, 0>>
CommentA == <<"a">>
CommentHashA == <<"#", "a">>
CommentB == <<"#", " ", "b">>
CommentC == <<"c">>

\* entries that differ in address, date and number of names
EntryPool ==
    {Entry(a, n, d, <<>>, <<>>) : a \in {Addr110, Addr12, Addr13},
                                  n \in {<<NameX>>, <<NameX, NameY>>},
                                  d \in {None, Date2009, Date2010}}

\* entries that differ in their names, excluded or not, and their comments
NamesPool ==
    {Entry(a, n, None, <<>>, <<c>>) : a \in {Addr12, Addr13},
                                      n \in {<<NameX, NameX>>, <<Localhost>>,
                                             <<NameNotIpv6, NameMyLocalhost>>,
                                             <<NameIpv6, NameX, NameNotIpv6>>},
                                      c \in {CommentA, CommentB}}

\* entries that differ in their comments and date extras
CommentsPool ==
    {Entry(a, n, d[1], d[2], c) : a \in {Addr12, Addr13},
                                  n \in {<<NameX>>, <<NameX, NameY>>},
                                  d \in {<<None, None>>, <<Date2010, <<"e">> >>},
                                  c \in {<<CommentA>>, <<CommentHashA, CommentB>>}}

MergeIdle ==
    /\ quiet = TRUE
    /\ heap = <<>>
    /\ entries = <<>>
    /\ input0 = <<>>
    /\ by_name = EmptyDict
    /\ order = <<>>
    /\ idx = 0
    /\ result = <<>>
    /\ err = NoError
    /\ pc = "idle"
    /\ pass = 1
    /\ result1 = <<>>

CombineIdle ==
    /\ cc_merged = <<>>
    /\ cc_merged0 = <<>>
    /\ cc_other = <<>>
    /\ cc_return = <<>>
    /\ cc_pc = "idle"

RoundTripIdle ==
    /\ rt_lines = <<>>
    /\ rt_first = NoEntry
    /\ rt_text = <<>>
    /\ rt_second = NoEntry
    /\ rt_pc = "idle"

DriverIdle ==
    /\ remove = <<>>
    /\ hosts = "original"
    /\ written = <<>>
    /\ derr = NoError
    /\ dpc = "idle"

ParseIdle ==
    /\ fragile = FALSE
    /\ contents = <<>>
    /\ in_text = TRUE
    /\ lines = <<>>
    /\ units = <<>>
    /\ perr = NoError
    /\ ppc = "idle"

\* merge is called on up to MaxEntries entries of the pool
MergeCalled(pool) ==
    /\ quiet \in BOOLEAN
    /\ \E n \in 0..MaxEntries :
          /\ heap \in [1..n -> pool]
          /\ entries = [i \in 1..n |-> i]
    /\ input0 = heap
    /\ by_name = EmptyDict
    /\ order = <<>>
    /\ idx = 0
    /\ result = <<>>
    /\ err = NoError
    /\ pc = "split"
    /\ pass = 1
    /\ result1 = <<>>

InitWith(pool) ==
    /\ MergeCalled(pool)
    /\ CombineIdle
    /\ RoundTripIdle
    /\ ParseIdle
    /\ DriverIdle

Init == InitWith(EntryPool)

Next ==
    \/ SplitByName
    \/ ReduceName
    \/ CombineAndReturn

\* merge on entries of varying address, date and names
Spec == Init /\ [][Next]_vars

NamesInit == InitWith(NamesPool)

\* merge on entries of varying names and comments
NamesSpec == NamesInit /\ [][Next]_vars

AgainInit == InitWith(CommentsPool)

AgainNext ==
    \/ SplitByName
    \/ ReduceName
    \/ CombineAndReturn
    \/ MergeAgain

\* merge, then merge of the result
AgainSpec == AgainInit /\ [][AgainNext]_vars

\* entries with one name or two, dated or not: two names can win at one
\* address with different dates
OrderPool ==
    {Entry(a, n, d, None, <<>>) : a \in {Addr12, Addr13},
                                  n \in {<<NameX>>, <<NameY>>, <<NameX, NameY>>},
                                  d \in {None, Date2010}}

PermuteInit == InitWith(OrderPool)

PermuteNext ==
    \/ SplitByName
    \/ ReduceName
    \/ CombineAndReturn
    \/ MergePermuted

\* merge, then merge of the same entries in another order
PermuteSpec == PermuteInit /\ [][PermuteNext]_vars

(***************************************************************************)
(* The buckets given to the stage functions                                *)
(***************************************************************************)

MaxBucket == 3

\* #CONFLICT: 1.3
CommentConflict13 ==
    <<"#", "C", "O", "N", "F", "L", "I", "C", "T", ":", " ">> \o Addr13

\* single-name entries that differ in address, date and comments
StagePool ==
    {Entry(a, <<NameX>>, d, <<>>, c) : a \in {Addr110, Addr12, Addr13},
                                      d \in {None, Date2009, Date2010},
                                      c \in {<<CommentA>>, <<CommentHashA, CommentConflict13>>}}

StageInit ==
    /\ quiet \in BOOLEAN
    /\ \E n \in 0..MaxBucket :
          /\ heap \in [1..n -> StagePool]
          /\ entries = [i \in 1..n |-> i]
    /\ input0 = heap
    /\ by_name = EmptyDict
    /\ order = <<>>
    /\ idx = 0
    /\ result = <<>>
    /\ err = NoError
    /\ pc = "stage"
    /\ pass = 1
    /\ result1 = <<>>
    /\ CombineIdle
    /\ RoundTripIdle
    /\ ParseIdle
    /\ DriverIdle

StageNext ==
    \/ CallMergeByDate
    \/ CallMergeSameIpv4
    \/ CallMergeForce
    \/ CallMergeForceAgain

\* one stage function on a bucket of single-name entries
StageSpec == StageInit /\ [][StageNext]_vars

(***************************************************************************)
(* The inputs of combine_comments                                          *)
(***************************************************************************)

MaxComments == 2

CommentPool ==
    {CommentA, CommentHashA, <<"b">>, CommentC, <<" ", "#", "#", " ", "#", " ", "c", " ">>,
     <<"#", "#">>}

CommentLists == UNION {[1..n -> CommentPool] : n \in 0..MaxComments}

CombineInit ==
    /\ cc_merged \in CommentLists
    /\ cc_merged0 = cc_merged
    /\ cc_other \in CommentLists
    /\ cc_return = <<>>
    /\ cc_pc = "call"
    /\ MergeIdle
    /\ RoundTripIdle
    /\ ParseIdle
    /\ DriverIdle

CombineNext == CombineComments

\* combine_comments on two lists of comments
CombineSpec == CombineInit /\ [][CombineNext]_vars

(***************************************************************************)
(* The line groups and the input lines                                     *)
(***************************************************************************)

MaxGroup == 3

Hashes2 == <<"#", "#">>
WordDATE == <<"D", "A", "T", "E">>
LineBlank == <<>>
LineComment == <<"#", " ", "c">>
\* ## DATE 2010-12-4
LineDate2010 == Hashes2 \o <<" ">> \o WordDATE \o <<" ", "2", "0", "1", "0", "-", "1", "2", "-", "4">>
\* ###date2009-01-01 10:12 e
LineDate2009 ==
    <<"#", "#", "#", "d", "a", "t", "e", "2", "0", "0", "9", "-", "0", "1", "-", "0", "1",
      " ", "1", "0", ":", "1", "2", " ", "e">>
\* ## DATE 2010-12-4bad
LineDateBad == LineDate2010 \o <<"b", "a", "d">>
\* 1.2.3.4 X y.x
LineAddress == <<"1", ".", "2", ".", "3", ".", "4", " ", "X", " ", "y", ".", "x">>
\* 5.6.7.8901 b
LineAddress2 == <<"5", ".", "6", ".", "7", ".", "8", "9", "0", "1", " ", "b">>
\* ### BEGIN GHETTONET
LineBegin ==
    <<"#", "#", "#", " ", "B", "E", "G", "I", "N", " ", "G", "H", "E", "T", "T", "O", "N", "E", "T">>
\* <b>##begin<b>ghettonetx, with a blank at each end
LineBeginHtml ==
    <<" ", "<", "b", ">", "#", "#", "b", "e", "g", "i", "n", "<", "b", ">",
      "g", "h", "e", "t", "t", "o", "n", "e", "t", "x", " ">>
\* ##endghettonet
LineEnd == <<"#", "#", "e", "n", "d", "g", "h", "e", "t", "t", "o", "n", "e", "t">>
\* <b>1.2.3.4 X<b>, with a blank at the end
LineAddressHtml ==
    <<"<", "b", ">", "1", ".", "2", ".", "3", ".", "4", " ", "X", "<", "b", ">", " ">>
\* not a comment, not an address
LineText == <<"t", "e", "x", "t">>
\* 1.2.3.4: an address and no name
LineAddressOnly == <<"1", ".", "2", ".", "3", ".", "4">>

GroupPool ==
    {LineBlank, LineComment, LineDate2010, LineDate2009, LineDateBad, LineAddress,
     LineAddress2}

RoundTripInit ==
    /\ \E n \in 1..MaxGroup : rt_lines \in [1..n -> GroupPool]
    /\ rt_first = NoEntry
    /\ rt_text = <<>>
    /\ rt_second = NoEntry
    /\ rt_pc = "parse"
    /\ MergeIdle
    /\ CombineIdle
    /\ ParseIdle
    /\ DriverIdle

RoundTripNext ==
    \/ FromLines
    \/ Render
    \/ FromLinesAgain

\* from_lines on a line group, then on the lines of the entry it gave
RoundTripSpec == RoundTripInit /\ [][RoundTripNext]_vars

LinePool ==
    {LineBegin, LineBeginHtml, LineEnd, LineBlank, LineComment, LineDate2010,
     LineAddressHtml, LineText, LineDateBad, LineAddressOnly}

ParseInit ==
    /\ fragile \in BOOLEAN
    /\ contents = <<>>
    /\ in_text = TRUE
    /\ lines = <<>>
    /\ units = <<>>
    /\ perr = NoError
    /\ ppc = "reading"
    /\ MergeIdle
    /\ CombineIdle
    /\ RoundTripIdle
    /\ DriverIdle

ParseNext ==
    \/ \E raw \in LinePool : ParseLine(raw)
    \/ ParseEnd

\* parse on up to MaxLines lines of the pool
ParseSpec == ParseInit /\ [][ParseNext]_vars

LenientInit == ParseInit /\ ~fragile

\* parse(contents) with fragile left at its default, on a finite input: the for
\* loop takes the next line or finds the input exhausted, and does not stall
LenientSpec == LenientInit /\ [][ParseNext]_vars /\ WF_vars(ParseNext)

\* entries whose names can conflict, at an address that -r can name
DriverPool ==
    {Entry(a, n, None, None, <<>>) : a \in {LineAddressOnly, Addr13},
                                     n \in {<<NameX>>, <<NameY>>, <<NameX, NameY>>}}

\* the -r options given: none, an address, text that is no address, an
\* address and an address followed by names
RemovePool ==
    {<<>>, <<LineAddressOnly>>, <<LineText>>, <<LineAddressOnly, LineAddress>>}

DriverInit ==
    /\ MergeCalled(DriverPool)
    /\ remove \in RemovePool
    /\ hosts = "original"
    /\ written = <<>>
    /\ derr = NoError
    /\ dpc = "merge"
    /\ CombineIdle
    /\ RoundTripIdle
    /\ ParseIdle

DriverNext ==
    \/ SplitByName
    \/ ReduceName
    \/ CombineAndReturn
    \/ MergeRaises
    \/ CallUpdateHosts
    \/ OpenHosts
    \/ WriteEntries

\* the main program with -w, from the call of merge on the entries read
DriverSpec == DriverInit /\ [][DriverNext]_vars

(***************************************************************************)
(* What the claims speak of                                                *)
(***************************************************************************)

\* the entries merge was given, by position
Inputs == 1..Len(input0)
\* the entries merge returned, by position
Returned == 1..Len(result)
Ret(k) == heap[result[k]]

Count(s, x) == Cardinality({i \in 1..Len(s) : s[i] = x})

\* a name the merge is to leave out
IsExcludedName(n) ==
    \/ \E i \in 1..Len(n) : i + 8 <= Len(n) /\ SubSeq(n, i, i + 8) = Localhost
    \/ Len(n) >= 5 /\ SubSeq(n, 1, 5) = Ipv6Prefix

InputNames == UNION {Range(input0[i].names) : i \in Inputs}
KeptNames == {n \in InputNames : ~IsExcludedName(n)}
Carriers(n) == {i \in Inputs : n \in Range(input0[i].names)}

\* input entry i carries n at n's top priority: no carrier of n is newer, and i is
\* dated if any carrier is
IsTop(i, n) ==
    /\ i \in Carriers(n)
    /\ \A j \in Carriers(n) :
          \/ input0[j].date = None
          \/ input0[i].date # None /\ ~DateLess(input0[i].date, input0[j].date)

TopAddrs(n) == {input0[i].ipv4 : i \in {j \in Carriers(n) : IsTop(j, n)}}

\* the address the result maps n to (when exactly one returned entry holds n)
Holders(n) == {k \in Returned : n \in Range(Ret(k).names)}

Smallest(addrs) == CHOOSE a \in addrs : \A b \in addrs : ~StrLess(b, a)

(***************************************************************************)
(* The claims on merge                                                     *)
(***************************************************************************)

\* C1: when merge returns, every input name that is not excluded occurs in exactly
\* one returned entry, and once in that entry's names.
C1_EachNameOnce ==
    pc = "done" =>
        \A n \in KeptNames :
            /\ Cardinality(Holders(n)) = 1
            /\ \A k \in Holders(n) : Count(Ret(k).names, n) = 1

\* C1 witness: a returned merge of entries that share a kept name, one of which
\* lists it twice, another of which carries an excluded name.
C1_Witness ==
    /\ pc = "done"
    /\ \E n \in KeptNames :
          /\ Cardinality(Carriers(n)) >= 2
          /\ \E i \in Carriers(n) : Count(input0[i].names, n) = 2
    /\ \E n \in InputNames : IsExcludedName(n)

\* C2: when merge returns, no two returned entries have the same address, every
\* returned address is an input entry's, and each returned entry holds every name
\* whose bucket resolved to its address.
C2_OnePerAddress ==
    pc = "done" =>
        /\ \A k, l \in Returned : Ret(k).ipv4 = Ret(l).ipv4 => k = l
        /\ \A k \in Returned : \E i \in Inputs : input0[i].ipv4 = Ret(k).ipv4
        /\ \A n \in DOMAIN by_name :
              \E k \in Returned :
                  /\ Ret(k).ipv4 = heap[by_name[n][1]].ipv4
                  /\ n \in Range(Ret(k).names)

\* C2 witness: a merge of three entries at two addresses that returned an entry
\* whose two names come from two input entries with one address.
C2_Witness ==
    /\ pc = "done"
    /\ Len(input0) = 3
    /\ Cardinality({input0[i].ipv4 : i \in Inputs}) = 2
    /\ \E i, j \in Inputs :
          /\ i # j
          /\ input0[i].ipv4 = input0[j].ipv4
          /\ input0[i].names = <<NameX>>
          /\ input0[j].names = <<NameX, NameY>>
          /\ \E k \in Returned :
                /\ Ret(k).ipv4 = input0[i].ipv4
                /\ Range(Ret(k).names) = {NameX, NameY}

\* C3: the address a returned name is mapped to is the address of an input entry
\* that carries the name with the newest date among the name's carriers; an undated
\* or older entry decides nothing when a newer one exists.
C3_NewestDateWins ==
    pc = "done" =>
        \A k \in Returned : \A n \in Range(Ret(k).names) : Ret(k).ipv4 \in TopAddrs(n)

\* C3 witness: a returned merge where a name has an undated, an older and a newer
\* carrier, at three addresses.
C3_Witness ==
    /\ pc = "done"
    /\ \E i, j, k \in Carriers(NameX) :
          /\ input0[i].date = None
          /\ input0[j].date = Date2009
          /\ input0[k].date = Date2010
          /\ Cardinality({input0[i].ipv4, input0[j].ipv4, input0[k].ipv4}) = 3

\* C4: strict merge fails, with the conflict error naming the name and its
\* conflicting addresses, exactly when some kept name is carried at its top
\* priority by two or more addresses; otherwise it returns.
C4_StrictConflict ==
    quiet =>
        /\ pc = "failed" =>
              /\ err.type = "Exception"
              /\ err.what = "Conflicting IPv4 addresses"
              /\ err.name \in KeptNames
              /\ Cardinality(TopAddrs(err.name)) >= 2
              /\ Range(err.addrs) = TopAddrs(err.name)
        /\ pc = "done" => \A n \in KeptNames : Cardinality(TopAddrs(n)) = 1
        /\ pc = "failed" => ~(\A n \in KeptNames : Cardinality(TopAddrs(n)) = 1)

\* C4 witness: a strict merge that failed on a name that also has an older carrier.
C4_Witness ==
    /\ quiet
    /\ pc = "failed"
    /\ \E i \in Carriers(err.name) : ~IsTop(i, err.name)

\* C5: lenient merge maps a name claimed at its top priority by several addresses
\* to exactly one of them, the smallest address string, whatever the input order
\* (1.2 when the contenders are 1.2 and 1.3).
C5_LenientSmallestAddress ==
    (pc = "done" /\ ~quiet) =>
        \A n \in KeptNames :
            Cardinality(TopAddrs(n)) >= 2 =>
                /\ Cardinality(Holders(n)) = 1
                /\ \A k \in Holders(n) :
                      /\ Ret(k).ipv4 = Smallest(TopAddrs(n))
                      /\ TopAddrs(n) = {Addr12, Addr13} => Ret(k).ipv4 = Addr12

\* C5 witness: a lenient merge where 1.2 is listed before 1.10 for one name at the
\* same date, and the name is mapped to 1.10.
C5_Witness ==
    /\ pc = "done"
    /\ ~quiet
    /\ Len(input0) >= 2
    /\ input0[1].ipv4 = Addr12
    /\ input0[2].ipv4 = Addr110
    /\ TopAddrs(NameX) = {Addr12, Addr110}
    /\ \E k \in Holders(NameX) : Ret(k).ipv4 = Addr110

\* an input entry all of whose names are excluded
FullyExcluded(i) == \A n \in Range(input0[i].names) : IsExcludedName(n)

\* C6: no returned entry carries an excluded name, and an input entry all of whose
\* names are excluded gives the result no name, no address and no comment: every
\* returned address and comment is that of an input entry with a kept name, or the
\* conflict marker of such an entry's address.
C6_ExcludedNamesDropped ==
    pc = "done" =>
        \A k \in Returned :
            /\ \A n \in Range(Ret(k).names) : ~IsExcludedName(n)
            /\ \E i \in Inputs : ~FullyExcluded(i) /\ input0[i].ipv4 = Ret(k).ipv4
            /\ \A c \in Range(Ret(k).comments) :
                  \E i \in Inputs :
                      /\ ~FullyExcluded(i)
                      /\ \/ c \in Range(input0[i].comments)
                         \/ c = ConflictMarker(input0[i].ipv4)

\* C6 witness: a returned, non-empty merge of an entry named only localhost, whose
\* address and comment no other entry has, and an entry mixing names.
C6_Witness ==
    /\ pc = "done"
    /\ result # <<>>
    /\ \E i \in Inputs :
          /\ FullyExcluded(i)
          /\ \A j \in Inputs \ {i} :
                /\ input0[j].ipv4 # input0[i].ipv4
                /\ input0[j].comments # input0[i].comments
    /\ \E i \in Inputs : input0[i].names = <<NameNotIpv6, NameMyLocalhost>>

\* C7: merging a returned result again, with the same strictness, returns without
\* error the same addresses, each with the same set of names, the same date and
\* date extra and the same comment list.
C7_MergeIdempotent ==
    pass = 2 =>
        /\ pc # "failed"
        /\ pc = "done" =>
              /\ Len(result) = Len(result1)
              /\ \A i \in 1..Len(result1) :
                    \E k \in Returned :
                        /\ Ret(k).ipv4 = result1[i].ipv4
                        /\ Range(Ret(k).names) = Range(result1[i].names)
                        /\ Ret(k).date = result1[i].date
                        /\ Ret(k).date_extra = result1[i].date_extra
                        /\ Ret(k).comments = result1[i].comments

\* C7 witness: a second merge that returned an entry with two names, a dated one,
\* and a conflict marker among the comments.
C7_Witness ==
    /\ pass = 2
    /\ pc = "done"
    /\ \E k \in Returned :
          /\ Len(Ret(k).names) = 2
          /\ Ret(k).date = Date2010
          /\ \E c \in Range(Ret(k).comments) : c = ConflictMarker(Addr13)
          /\ Len(Ret(k).comments) >= 3

\* C8: for every Entry that from_lines gives for a line group, from_lines on
\* the lines str() writes for it gives an Entry with the same address, the same
\* set of names, the same date and extra text, and the same comments once the
\* leading blank ones are dropped.
C8_RoundTrip ==
    (rt_pc = "done" /\ rt_first.err = NoError) =>
        /\ rt_second.err = NoError
        /\ rt_second.entry.ipv4 = rt_first.entry.ipv4
        /\ Range(rt_second.entry.names) = Range(rt_first.entry.names)
        /\ rt_second.entry.date = rt_first.entry.date
        /\ rt_second.entry.date_extra = rt_first.entry.date_extra
        /\ DropLeadingBlanks(rt_second.entry.comments) = DropLeadingBlanks(rt_first.entry.comments)

\* the source comment at k is represented neither in the target nor earlier in the source
Fresh(k) ==
    /\ \A t \in 1..Len(cc_merged0) : strip_comment(cc_merged0[t]) # strip_comment(cc_other[k])
    /\ \A j \in 1..(k - 1) : strip_comment(cc_other[j]) # strip_comment(cc_other[k])

\* the fresh source comments among the first k, in source order
RECURSIVE FreshUpTo(_)
FreshUpTo(k) ==
    IF k = 0 THEN <<>>
    ELSE IF Fresh(k) THEN Append(FreshUpTo(k - 1), cc_other[k])
    ELSE FreshUpTo(k - 1)

\* C9: combine_comments(target, source) returns the target list, extended in
\* source order by exactly the source comments whose strip_comment form is not
\* that of a target comment nor of an earlier source comment; the target's own
\* comments stay as a prefix, and [a, b] with [a, c] or ['#a', c] gives [a, b, c].
C9_CombineComments ==
    cc_pc = "returned" =>
        /\ cc_return = cc_merged0 \o FreshUpTo(Len(cc_other))
        /\ cc_return = cc_merged
        /\ (/\ cc_merged0 = <<CommentA, <<"b">>>>
            /\ cc_other \in {<<CommentA, CommentC>>, <<CommentHashA, CommentC>>})
           => cc_return = <<CommentA, <<"b">>, CommentC>>

C9_Witness ==
    /\ cc_pc = "returned"
    /\ cc_merged0 = <<CommentA, <<"b">>>>
    /\ cc_other = <<CommentHashA, CommentC>>
    /\ cc_return = <<CommentA, <<"b">>, CommentC>>

\* the line as parse reads it: without markup, without blanks at its ends
Normalized(raw) == Strip(remove_html(raw))

\* ##... BEGIN GHETTONET at the start of the line, in any case, with optional
\* blanks before BEGIN and before GHETTONET
IsBeginMarker(line) ==
    LET low == Lower(line)
    IN  \E i \in 3..(Len(low) - 13) :
           /\ SubSeq(low, i, i + 4) = <<"b", "e", "g", "i", "n">>
           /\ \E n \in 2..(i - 1) :
                 /\ \A k \in 1..n : low[k] = "#"
                 /\ \A k \in (n + 1)..(i - 1) : low[k] = " "
           /\ \E j \in (i + 5)..(Len(low) - 8) :
                 /\ \A k \in (i + 5)..(j - 1) : low[k] = " "
                 /\ SubSeq(low, j, j + 8) = Ghettonet

NoBeginMarker == \A i \in 1..Len(contents) : ~IsBeginMarker(Normalized(contents[i]))

\* C10: when parse has read a non-empty input none of whose lines is a begin
\* marker, it has raised nothing and has yielded exactly one unit, a
\* pass-through unit with all the normalized lines in input order.
C10_NoBeginOnePassThrough ==
    (ppc \in {"end", "raised"} /\ contents # <<>> /\ NoBeginMarker) =>
        /\ ppc = "end"
        /\ perr = NoError
        /\ Len(units) = 1
        /\ ~units[1].data
        /\ units[1].lines = [i \in 1..Len(contents) |-> Normalized(contents[i])]

C10_Witness ==
    /\ ppc = "end"
    /\ fragile
    /\ NoBeginMarker
    /\ contents = <<LineEnd, LineDate2010, LineAddressHtml>>
    /\ Len(units) = 1
    /\ ~units[1].data
    /\ Len(units[1].lines) = 3

\* C11: every data unit parse has yielded, in either mode, carries an Entry
\* with an address and at least one name; a group without an address or
\* without names is never yielded as a data unit.
C11_DataUnitsComplete ==
    \A k \in 1..Len(units) :
        units[k].data => units[k].entry.ipv4 # None /\ units[k].entry.names # <<>>

C11_Witness ==
    /\ ~fragile
    /\ contents = <<LineBegin, LineAddressOnly, LineBegin, LineAddressHtml>>
    /\ Len(units) = 1
    /\ units[1].data
    /\ units[1].entry.names = <<<<"x">>>>

\* C12: from_lines on a group with a date line after a first valid date line
\* raises, so that no Entry comes of such a group, and no Entry that from_lines
\* gives holds a date line among its comments.
C12_DuplicateDateRejected ==
    rt_pc \in {"render", "reparse", "done"} =>
        /\ (\E i, j \in 1..Len(rt_lines) :
               /\ i < j
               /\ DATE(rt_lines[i]).ok
               /\ POSSIBLE_DATE(rt_lines[j]))
           => rt_first.err.type = "ParseException"
        /\ rt_first.err = NoError =>
               \A k \in 1..Len(rt_first.entry.comments) :
                   ~POSSIBLE_DATE(rt_first.entry.comments[k])

\* parse takes the next line of the input
ReadsLine == ppc = "reading" /\ Len(contents') = Len(contents) + 1

\* that line, as parse reads it
LineRead == Normalized(contents'[Len(contents')])

\* parse finds the input exhausted
InputEnds == ppc = "reading" /\ contents' = contents /\ ppc' # "reading"

\* the line read inside a block ends a group that from_lines rejects
GroupFails ==
    /\ ReadsLine
    /\ ~in_text
    /\ ~END(LineRead)
    /\ ~COMMENT_OR_BLANK(LineRead)
    /\ from_lines(Append(lines, LineRead)).err # NoError

\* C13: in lenient mode, when a group inside a block fails to parse, no unit is
\* yielded for it, its lines are dropped and the scanner is outside; outside,
\* every line that is not a begin marker (an address line, an end marker) is
\* buffered as text and yields no data unit.
C13_LenientFallBack ==
    [][/\ (GroupFails /\ ~fragile) =>
              /\ in_text'
              /\ lines' = <<>>
              /\ units' = units
              /\ perr' = NoError
              /\ ppc' = "reading"
       /\ (ReadsLine /\ in_text /\ ~IsBeginMarker(LineRead)) =>
              /\ in_text'
              /\ lines' = Append(lines, LineRead)
              /\ units' = units]_vars

C13_Witness ==
    /\ ~fragile
    /\ ppc = "end"
    /\ contents = <<LineBegin, LineText, LineAddressHtml, LineEnd>>
    /\ units = <<TextUnit(<<Normalized(LineAddressHtml), LineEnd>>)>>

\* C14: when the input ends inside a block, strict mode raises a
\* ParseException; lenient mode raises nothing and yields no further unit, so
\* the buffered lines are dropped.
C14_EndInsideBlock ==
    [][(InputEnds /\ ~in_text) =>
           /\ units' = units
           /\ IF fragile
              THEN ppc' = "raised" /\ perr'.type = "ParseException"
              ELSE ppc' = "end" /\ perr' = NoError]_vars

C14_Witness ==
    /\ fragile
    /\ ppc = "raised"
    /\ perr = ParseException("Missing END GHETTONET")
    /\ contents = <<LineBegin, LineAddressHtml>>
    /\ Len(units) = 1

\* C15: on an end marker read inside a block, strict mode raises 'Unexpected
\* text' exactly when the buffered residue has a non-empty line (a comment
\* counts, blank lines do not); otherwise, and always in lenient mode, nothing
\* is raised, the scanner is outside with an empty buffer, and no unit is
\* yielded for the residue.
C15_EndMarkerInside ==
    [][(ReadsLine /\ ~in_text /\ END(LineRead)) =>
           /\ units' = units
           /\ IF fragile /\ \E i \in 1..Len(lines) : lines[i] # <<>>
              THEN ppc' = "raised" /\ perr' = ParseException("Unexpected text")
              ELSE /\ ppc' = "reading"
                   /\ perr' = NoError
                   /\ in_text'
                   /\ lines' = <<>>]_vars

C15_Witness ==
    /\ fragile
    /\ ppc = "raised"
    /\ perr = ParseException("Unexpected text")
    /\ contents = <<LineBegin, LineComment, LineEnd>>
    /\ units = <<>>

\* the names whose bucket the reduction loop has been through
Reduced == {order[k] : k \in 1..idx}

\* C18: with the three default strategies merge never raises 'Multiple entries'
\* and no assertion of a stage fails: a bucket the loop has been through holds
\* exactly one entry unless merge_force raised the conflict, which is the only
\* failure of merge, and it never fails when quiet is False.
C18_OnlyConflictFails ==
    /\ err.type # "AssertionError"
    /\ err.what # "Multiple entries"
    /\ pc = "failed" => quiet /\ err.what = "Conflicting IPv4 addresses"
    /\ pc \in {"reduce", "done"} => \A n \in Reduced : Len(by_name[n]) = 1

C18_Witness ==
    /\ pc = "done"
    /\ ~quiet
    /\ \E i, j, k \in Inputs :
          /\ i # j
          /\ input0[i].ipv4 = input0[j].ipv4
          /\ input0[k].ipv4 # input0[i].ipv4
          /\ \A x \in {i, j, k} : input0[x].date = None /\ NameX \in Range(input0[x].names)
    /\ \A n \in DOMAIN by_name : Len(by_name[n]) = 1

\* C19: merge changes no input entry that has more than one name, whether it
\* returns or fails, and no Entry object is in the buckets of two names.
C19_MultiNameInputsUntouched ==
    /\ \A i \in 1..Len(entries) :
          Len(input0[i].names) > 1 => heap[entries[i]] = input0[i]
    /\ \A n1, n2 \in DOMAIN by_name :
          n1 # n2 => Range(by_name[n1]) \cap Range(by_name[n2]) = {}

C19_Witness ==
    /\ pc = "done"
    /\ pass = 1
    /\ \E i \in 1..Len(entries), k \in Returned :
          /\ Len(input0[i].names) = 2
          /\ heap[entries[i]] = input0[i]
          /\ result[k] \notin Range(entries)
          /\ Ret(k).ipv4 = input0[i].ipv4
          /\ Ret(k).names # input0[i].names
          /\ Ret(k).comments # input0[i].comments

(***************************************************************************)
(* The claims on the stage functions.  The bucket holds the objects 1..n   *)
(* in this order when the function is called.                              *)
(***************************************************************************)

Bucket == 1..Len(input0)

\* the bucket entries no other bucket entry is newer than, among the dated ones
Newest ==
    {i \in Bucket : /\ input0[i].date # None
                    /\ \A j \in Bucket : ~DateLess(input0[i].date, input0[j].date)}

\* C16: merge_by_date on a non-empty bucket of single-name entries returns,
\* each once, exactly the entries dated with the newest date of the bucket when
\* some entry is dated, and the bucket as it is when none is; the result is never
\* empty and is the same set of entries for every order of the bucket.
C16_MergeByDate ==
    (pc = "merge_by_date" /\ input0 # <<>>) =>
        /\ err = NoError
        /\ result # <<>>
        /\ heap = input0
        /\ IF \A i \in Bucket : input0[i].date = None
           THEN result = entries
           ELSE /\ Range(result) = Newest
                /\ Len(result) = Cardinality(Newest)

C16_Witness ==
    /\ pc = "merge_by_date"
    /\ Len(input0) = 3
    /\ input0[1].date = None
    /\ input0[2].date = Date2010
    /\ input0[3].date = Date2010
    /\ result = <<2, 3>>

\* the first entry of the bucket with the address of entry i
FirstAt(i) == CHOOSE j \in Bucket :
                  /\ input0[j].ipv4 = input0[i].ipv4
                  /\ \A k \in Bucket : input0[k].ipv4 = input0[i].ipv4 => j <= k

\* the normalized forms of the comments of the bucket entries with the address of i
FormsAt(i) ==
    UNION {{strip_comment(c) : c \in Range(input0[j].comments)} :
               j \in {k \in Bucket : input0[k].ipv4 = input0[i].ipv4}}

\* cs is old, extended by comments whose normalized forms are new and distinct
ExtendsWithoutDuplicate(cs, old) ==
    /\ Len(cs) >= Len(old)
    /\ SubSeq(cs, 1, Len(old)) = old
    /\ \A k \in (Len(old) + 1)..Len(cs) :
          \A j \in 1..(k - 1) : strip_comment(cs[j]) # strip_comment(cs[k])

\* C17: merge_same_ipv4 on a non-empty bucket of single-name entries of one date
\* returns one entry per address of the bucket, in the order of the address
\* strings; the entry returned for an address is the first of the bucket with
\* it, and its comments are its own, extended without normalized duplicate so
\* that every comment of the bucket entries with that address is represented.
C17_MergeSameIpv4 ==
    (/\ pc = "merge_same_ipv4"
     /\ input0 # <<>>
     /\ \A i \in Bucket : input0[i].date = input0[1].date) =>
        /\ err = NoError
        /\ {heap[result[k]].ipv4 : k \in 1..Len(result)} = {input0[i].ipv4 : i \in Bucket}
        /\ \A k \in 1..(Len(result) - 1) :
              StrLess(heap[result[k]].ipv4, heap[result[k + 1]].ipv4)
        /\ \A k \in 1..Len(result) :
              /\ result[k] = FirstAt(result[k])
              /\ ExtendsWithoutDuplicate(heap[result[k]].comments, input0[result[k]].comments)
              /\ {strip_comment(c) : c \in Range(heap[result[k]].comments)} = FormsAt(result[k])

C17_Witness ==
    /\ pc = "merge_same_ipv4"
    /\ Len(input0) = 3
    /\ input0[1].ipv4 = Addr12
    /\ input0[2].ipv4 = Addr110
    /\ input0[3].ipv4 = Addr12
    /\ input0[1].comments = <<CommentA>>
    /\ input0[3].comments = <<CommentHashA, CommentConflict13>>
    /\ result = <<2, 1>>
    /\ heap[1].comments = <<CommentA, CommentConflict13>>

\* the normalized form of the conflict marker of address d
ConflictForm(d) == <<"C", "O", "N", "F", "L", "I", "C", "T", ":", " ">> \o d

HasForm(cs, form) == \E k \in 1..Len(cs) : strip_comment(cs[k]) = form

\* how many of the comments from position n + 1 on have this normalized form
FormsAdded(cs, n, form) ==
    Cardinality({k \in (n + 1)..Len(cs) : strip_comment(cs[k]) = form})

\* C20: when merge_force has resolved a conflict with quiet False, the winner's
\* comments hold, for every discarded address d, a comment whose normalized form
\* is 'CONFLICT: d'; none was added when the winner had one, one was added
\* otherwise, and it is the marker '## CONFLICT: d' when no comment of the bucket
\* had that form; merge_force on the winner and the discarded entries once more
\* adds nothing.
C20_ConflictMarkedOnce ==
    (pc = "merge_force" /\ err = NoError /\ input0 # <<>>) =>
        LET old == input0[1].comments
            now == heap[entries[1]].comments
        IN  /\ result = <<entries[1]>>
            /\ SubSeq(now, 1, Len(old)) = old
            /\ \A i \in 2..Len(input0) :
                  LET d == input0[i].ipv4
                  IN  /\ HasForm(now, ConflictForm(d))
                      /\ FormsAdded(now, Len(old), ConflictForm(d))
                             = IF HasForm(old, ConflictForm(d)) THEN 0 ELSE 1
                      /\ (\A j \in Bucket : ~HasForm(input0[j].comments, ConflictForm(d)))
                             => Count(now, ConflictMarker(d)) = 1
            /\ pass = 2 => now = result1[1].comments

C20_Witness ==
    /\ pc = "merge_force"
    /\ pass = 2
    /\ err = NoError
    /\ Len(input0) = 3
    /\ input0[1].ipv4 = Addr12
    /\ input0[2].ipv4 = Addr13
    /\ input0[3].ipv4 = Addr110
    /\ input0[1].comments = <<CommentHashA, CommentConflict13>>
    /\ heap[entries[1]].comments = <<CommentHashA, CommentConflict13, ConflictMarker(Addr110)>>

\* the lines of a group that from_lines hands to set_address
AddressLines(ls) ==
    {i \in 1..Len(ls) : ~POSSIBLE_DATE(ls[i]) /\ ~COMMENT_OR_BLANK(ls[i])}

\* C21: when the group from_lines reads has two address lines, the Entry it
\* gives holds the names of both and the address of the first of them, also
\* when the second writes another address.
C21_FirstAddressKept ==
    (/\ rt_pc \in {"render", "reparse", "done"}
     /\ rt_first.err = NoError
     /\ Cardinality(AddressLines(rt_lines)) >= 2) =>
        LET first == CHOOSE i \in AddressLines(rt_lines) :
                         \A j \in AddressLines(rt_lines) : i <= j
        IN  /\ rt_first.entry.ipv4 = IPV4(rt_lines[first]).ipv4
            /\ \A i \in AddressLines(rt_lines) :
                  Range(ReadNames(<<>>, IPV4(rt_lines[i]).rest).names)
                      \subseteq Range(rt_first.entry.names)

\* ghettonet.py 843-854: the lines read_existing yields from the pairs of
\* parse(split(source), quiet=quiet): those of the pairs whose first part is
\* False
RECURSIVE read_existing(_)
read_existing(us) ==
    IF us = <<>> THEN <<>>
    ELSE IF ~Head(us).data THEN Head(us).lines \o read_existing(Tail(us))
    ELSE read_existing(Tail(us))

\* whether a reader that enters a block at a begin marker and leaves it at the
\* next end marker is inside one after the lines ls
RECURSIVE InBlockAfter(_, _)
InBlockAfter(ls, inside) ==
    IF ls = <<>> THEN inside
    ELSE IF inside THEN InBlockAfter(Tail(ls), ~END(Normalized(Head(ls))))
    ELSE InBlockAfter(Tail(ls), BEGIN(Normalized(Head(ls))))

\* the lines of ls outside those blocks, markers left out, as parse reads them
RECURSIVE OutsideBlocks(_, _)
OutsideBlocks(ls, inside) ==
    IF ls = <<>> THEN <<>>
    ELSE IF inside THEN OutsideBlocks(Tail(ls), ~END(Normalized(Head(ls))))
    ELSE IF BEGIN(Normalized(Head(ls))) THEN OutsideBlocks(Tail(ls), TRUE)
    ELSE <<Normalized(Head(ls))>> \o OutsideBlocks(Tail(ls), FALSE)

\* C22: for a file whose blocks are all closed by an end marker, read_existing
\* yields, in order, exactly the lines outside the blocks: no line between a
\* begin marker and the end marker after it, and no marker of a block, is
\* yielded.
C22_ExistingExcludesBlocks ==
    (/\ ppc = "end"
     /\ ~fragile
     /\ ~InBlockAfter(contents, FALSE)) =>
        read_existing(units) = OutsideBlocks(contents, FALSE)

\* the line read inside a block is no end marker and no comment, blank or date
\* line: parse hands the buffer, that line included, to from_lines
Attempts ==
    /\ ReadsLine
    /\ ~in_text
    /\ ~END(LineRead)
    /\ ~COMMENT_OR_BLANK(LineRead)

\* the place in buf of the date line from_lines takes, 0 if there is none
DateIndex(buf) ==
    IF \E i \in 1..Len(buf) : POSSIBLE_DATE(buf[i])
    THEN CHOOSE i \in 1..Len(buf) :
             /\ POSSIBLE_DATE(buf[i])
             /\ \A j \in 1..(i - 1) : ~POSSIBLE_DATE(buf[j])
    ELSE 0

\* the buffer without its last line (the address line) and without the date
\* line, in order
OtherLines(buf) ==
    LET d == DateIndex(buf)
    IN  IF d = 0 THEN SubSeq(buf, 1, Len(buf) - 1)
        ELSE SubSeq(buf, 1, d - 1) \o SubSeq(buf, d + 1, Len(buf) - 1)

\* C23: inside a block, a line that is neither an end marker nor a comment,
\* blank or date line makes one parse attempt over the buffer with that line,
\* also when the buffer was empty. If the attempt succeeds, exactly one data
\* unit is appended after the units already yielded; its Entry has the address
\* of that line and, as comments, the other buffered lines without the date
\* line, in order; the buffer is emptied and the scanner stays inside. If it
\* fails, no unit is yielded.
C23_AddressLineEndsGroup ==
    [][Attempts =>
           LET buffer == Append(lines, LineRead)
           IN  IF from_lines(buffer).err = NoError
               THEN /\ Len(units') = Len(units) + 1
                    /\ SubSeq(units', 1, Len(units)) = units
                    /\ units'[Len(units')].data
                    /\ units'[Len(units')].entry.ipv4 = IPV4(LineRead).ipv4
                    /\ units'[Len(units')].entry.comments = OtherLines(buffer)
                    /\ lines' = <<>>
                    /\ ~in_text'
                    /\ ppc' = "reading"
               ELSE units' = units]_vars

C23_Witness ==
    /\ ppc = "reading"
    /\ ~in_text
    /\ lines = <<>>
    /\ contents = <<LineBegin, LineAddressHtml, LineDate2010, LineAddressHtml>>
    /\ Len(units) = 2
    /\ units[1].data /\ units[1].entry.comments = <<>> /\ units[1].entry.date = None
    /\ units[2].data /\ units[2].entry.comments = <<>> /\ units[2].entry.date # None

\* entry values compared by address, set of names and date
Compared(es) == {<<es[i].ipv4, Range(es[i].names), es[i].date>> : i \in 1..Len(es)}

\* C24: merge of the same entries in another order raises when the first call
\* raised, and otherwise returns the same set of entries, compared by address,
\* set of names and date.
C24_OrderInsignificant ==
    (pass \in {2, 3} /\ pc \in {"done", "failed"}) =>
        /\ pc = "failed" <=> pass = 3
        /\ pc = "done" =>
               Compared([k \in Returned |-> Ret(k)]) = Compared(result1)

\* the lines of ls inside blocks, as parse reads them, split after every line
\* that is no comment and no blank line: groups holds the groups so closed,
\* dropped the lines left over before an end marker or the end of the input,
\* inside whether the input ends inside a block
RECURSIVE BlockGroups(_, _, _, _, _)
BlockGroups(ls, inside, cur, closed, dropped) ==
    IF ls = <<>>
    THEN [groups |-> closed, dropped |-> dropped \o cur, inside |-> inside]
    ELSE IF ~inside
    THEN BlockGroups(Tail(ls), BEGIN(Normalized(Head(ls))), <<>>, closed, dropped)
    ELSE IF END(Normalized(Head(ls)))
    THEN BlockGroups(Tail(ls), FALSE, <<>>, closed, dropped \o cur)
    ELSE IF COMMENT_OR_BLANK(Normalized(Head(ls)))
    THEN BlockGroups(Tail(ls), TRUE, Append(cur, Normalized(Head(ls))), closed, dropped)
    ELSE BlockGroups(Tail(ls), TRUE, <<>>,
                     Append(closed, Append(cur, Normalized(Head(ls)))), dropped)

IsData(u) == u.data

\* C25: when a strict parse has read its whole input without raising, the
\* input does not end inside a block, the lines dropped inside blocks are all
\* blank, and every group of lines inside a block that ends with an address
\* line has its data unit, in order: the unit holds the address of that line,
\* the date if the group has a date line, and the other lines as comments.
C25_StrictKeepsEveryLine ==
    (fragile /\ ppc = "end") =>
        LET b == BlockGroups(contents, FALSE, <<>>, <<>>, <<>>)
            data == SelectSeq(units, IsData)
        IN  /\ ~b.inside
            /\ \A i \in 1..Len(b.dropped) : b.dropped[i] = <<>>
            /\ Len(data) = Len(b.groups)
            /\ \A k \in 1..Len(b.groups) :
                  LET g == b.groups[k]
                  IN  /\ data[k].entry.ipv4 = IPV4(g[Len(g)]).ipv4
                      /\ data[k].entry.comments = OtherLines(g)
                      /\ data[k].entry.date # None <=> DateIndex(g) # 0

C25_Witness ==
    /\ fragile
    /\ ppc = "end"
    /\ contents = <<LineBegin, LineDate2010, LineAddressHtml, LineEnd>>
    /\ Len(units) = 1
    /\ units[1].data
    /\ units[1].entry.date # None

\* C26: a lenient parse never raises: every ParseException of a group is
\* caught. It reads one line of the input at a time, has yielded no more units
\* than it has read lines, and ends once the input is exhausted.
C26_LenientNeverRaises ==
    /\ [](perr = NoError /\ ppc # "raised" /\ Len(units) <= Len(contents))
    /\ [][ppc = "reading" /\ ppc' = "reading" => Len(contents') = Len(contents) + 1]_vars
    /\ <>(ppc = "end")

C26_Witness ==
    /\ ~fragile
    /\ ppc = "end"
    /\ perr = NoError
    /\ contents = <<LineBegin, LineDateBad, LineAddressHtml, LineText>>
    /\ units = <<TextUnit(<<LineText>>)>>

\* C27: a run with -w that fails on its input, by a conflict that merge raises
\* or by an address given with -r that filter_addresses rejects, fails before
\* update_hosts has renamed the hosts file or opened it for writing: the hosts
\* file is as it was.
C27_FailureLeavesHosts ==
    (/\ dpc = "failed"
     /\ derr.what \in {"Conflicting IPv4 addresses", "Bad address to remove"}) =>
        hosts = "original"

====
